---- MODULE Spec2Model ----
(***************************************************************************)
(* Model of the education assistant: the TutorGraph orchestration graph    *)
(* (agents/tutor_graph.py) and the TutorService session layer              *)
(* (services/tutor_service.py) with the relational store                   *)
(* (models/database.py).                                                   *)
(*                                                                         *)
(* Conventions.                                                            *)
(*  - An Optional value is a sequence of length 0 (None) or 1.             *)
(*  - A text that the code inspects (message content, subtopic, answer)    *)
(*    is a sequence of tokens; a token is an indivisible piece of text.    *)
(*  - graph.invoke is read as the code reads it: the nodes update one      *)
(*    TutorState object and the result of invoke is that object.           *)
(*  - Every LLM call is an input: it fails (the chain raises) or returns   *)
(*    one of a small set of parsed answers.                                *)
(*  - The TTSService text-to-speech helper (services/tts_service.py) is    *)
(*    modelled with its cache and the files of its directory; speech       *)
(*    synthesis and the removal of a file are inputs that can fail.        *)
(***************************************************************************)
EXTENDS Integers, Sequences, FiniteSets, TLC

VARIABLES
    node,       \* TutorGraph: the node about to run ("idle" = no invocation)
    state,      \* TutorGraph: the TutorState of the running invocation
    op,         \* TutorGraph: the public operation that started the invocation
    ret,        \* TutorGraph: what the last public operation returned
    trace,      \* history: the nodes executed in this invocation, in order
    errorSet,   \* history: some node set error_occurred in this invocation
    validations, \* history: the validator's verdicts in this invocation
    asked,      \* history: the state this invocation started from and its
                \* LLM calls: how many, the question last generated, the
                \* improved_question last sent
    current_sessions, \* TutorService: the active sessions by session id
    next_session,     \* TutorService: the id the next created session gets
    db,               \* the relational store: students, learning_sessions,
                      \* question_responses
    out,              \* TutorService: what the last operation returned
    shown,            \* history: per session, whether only assessment
                      \* operations filled it and, while that is so, the
                      \* question numbers displayed
    limit,            \* the bounds of the run: session ids, questions held
    cache,      \* TTSService: the path recorded for each cache key
    files,      \* the files that exist in TTSService.temp_dir
    speech,     \* TTSService: what the last operation was and returned
    spoken      \* history: the path text_to_speech last returned for a text

gvars == <<node, state, op, ret, trace, errorSet, validations, asked>>
svars == <<current_sessions, next_session, db, out, shown, limit>>
tvars == <<cache, files, speech, spoken>>
vars == <<gvars, svars, tvars>>

----------------------------------------------------------------------------
(* Optional values *)

None == <<>>
Some(x) == <<x>>

----------------------------------------------------------------------------
(* Texts *)

\* str.lower() on one token
LowerToken(t) ==
    CASE t = "EVALUATE:" -> "evaluate:"
      [] t = "LEARNING_PLAN" -> "learning_plan"
      [] t = "Generate question for " -> "generate question for "
      [] t = "Generate " -> "generate "
      [] t = "Explain " -> "explain "
      [] OTHER -> t

\* str.lower()
Lower(text) == [i \in 1..Len(text) |-> LowerToken(text[i])]

\* sub in text
Contains(sub, text) == \E i \in 1..Len(text) : text[i] = sub

\* text.replace(sub, "")
IsNot(sub, t) == t # sub
Replace(text, sub) ==
    LET keep(t) == IsNot(sub, t) IN SelectSeq(text, keep)

\* text.strip()
RECURSIVE LStrip(_)
LStrip(text) ==
    IF text # <<>> /\ Head(text) = " " THEN LStrip(Tail(text)) ELSE text
RECURSIVE RStrip(_)
RStrip(text) ==
    IF text # <<>> /\ text[Len(text)] = " "
    THEN RStrip(SubSeq(text, 1, Len(text) - 1)) ELSE text
Strip(text) == RStrip(LStrip(text))

----------------------------------------------------------------------------
(* Inputs *)

Subjects == {"Mathematics", "English"}
Grades == {"3"}
Topics == {"Numbers"}
Subtopics == {<<"w">>, <<"w", "evaluate:">>, <<"EVALUATE:">>,
              <<"learning_plan">>, <<"LEARNING_PLAN", "w">>}
Answers == {<<"w">>, <<" ", "evaluate:", "w", " ">>, <<"learning_plan">>}
Difficulties == 1..5

\* the parsed answers of the LLM, per chain; ok = FALSE: the chain raised
GeneratedQuestion(d) ==
    [question |-> "Q", hint |-> "H", solution |-> "S", difficulty_level |-> d]
QuestionAnswers(levels) ==
    {[ok |-> FALSE]} \cup {[ok |-> TRUE, result |-> GeneratedQuestion(d)] : d \in levels}
\* which answers of the LLM are enumerated: the improved_question values the
\* validator may send and the difficulty_level values a generated question
\* may carry (the LLM is asked for a level, the code does not check it)
AnyAnswer == [improvements |-> {None, Some(""), Some("Qimproved")}, levels |-> {1, 5}]
PlainAnswer == [improvements |-> {None}, levels |-> {1}]
ValidationAnswers(improvements) ==
    {[ok |-> FALSE]} \cup
    {[ok |-> TRUE, is_valid |-> v, improved_question |-> i] :
        v \in BOOLEAN, i \in improvements}
EvaluationAnswers ==
    {[ok |-> FALSE]} \cup
    {[ok |-> TRUE,
      result |-> [is_correct |-> c, feedback |-> "F", score |-> IF c THEN 1 ELSE 0]] :
        c \in BOOLEAN}
ExplanationAnswers == {[ok |-> FALSE], [ok |-> TRUE, result |-> "E"]}
PlanAnswers ==
    {[ok |-> FALSE],
     [ok |-> TRUE, result |-> [strengths |-> "S", areas_for_improvement |-> "A",
                               recommended_activities |-> "R", next_steps |-> "N",
                               encouragement |-> "E"]]}
NoAnswer == {[ok |-> TRUE]}

FallbackExplanation == "I'm having trouble creating the explanation. Let's try again!"

----------------------------------------------------------------------------
(* TutorState *)

HumanMessage(content) == [type |-> "human", content |-> content]
AIMessage(content) == [type |-> "ai", content |-> content]

TutorState(messages, subject, grade, topic, subtopic, session_type) ==
    [messages |-> messages,
     current_subject |-> subject,
     current_grade |-> grade,
     current_topic |-> topic,
     current_subtopic |-> subtopic,
     session_type |-> session_type,
     questions_generated |-> <<>>,
     student_responses |-> <<>>,
     current_question_index |-> 0,
     correct_answers |-> 0,
     total_questions |-> 0,
     difficulty_level |-> 1,
     current_question |-> None,
     evaluation_result |-> None,
     learning_plan |-> None,
     explanation_content |-> "",
     needs_validation |-> FALSE,
     session_complete |-> FALSE,
     error_occurred |-> FALSE,
     retry_count |-> 0]

----------------------------------------------------------------------------
(* The nodes *)

RouteRequest(s) ==
    IF s.messages = <<>> THEN [s EXCEPT !.error_occurred = TRUE] ELSE s

GenerateQuestionNodeWithoutCount(s, llm) ==
    IF llm.ok
    THEN [s EXCEPT !.current_question = Some(llm.result),
                   !.questions_generated = Append(@, llm.result),
                   !.needs_validation = TRUE]
    ELSE [s EXCEPT !.error_occurred = TRUE]

GenerateQuestionNode(s, llm) ==
    IF llm.ok
    THEN [s EXCEPT !.current_question = Some(llm.result),
                   !.questions_generated = Append(@, llm.result),
                   !.needs_validation = TRUE]
    ELSE [s EXCEPT !.error_occurred = TRUE, !.retry_count = @ + 1]

TruthyNever(opt) == FALSE

\* bool(validation.improved_question)
Truthy(opt) == opt # None /\ opt[1] # ""

\* the generated question is the same object in current_question and at the
\* end of questions_generated: an improved text shows in both
ValidateQuestion(s, llm) ==
    IF s.current_question = None THEN [s EXCEPT !.error_occurred = TRUE]
    ELSE IF ~llm.ok THEN [s EXCEPT !.error_occurred = TRUE]
    ELSE
      LET improved ==
            IF Truthy(llm.improved_question)
            THEN [s EXCEPT !.current_question[1].question = llm.improved_question[1],
                           !.questions_generated[Len(s.questions_generated)].question =
                               llm.improved_question[1]]
            ELSE s
          flagged == [improved EXCEPT !.needs_validation = FALSE]
      IN IF ~llm.is_valid /\ flagged.retry_count < 3
         THEN [flagged EXCEPT !.retry_count = @ + 1, !.current_question = None]
         ELSE [flagged EXCEPT !.retry_count = 0]

EvaluateAnswerNode(s, llm) ==
    IF s.messages = <<>> THEN [s EXCEPT !.error_occurred = TRUE]
    ELSE
      LET student_answer ==
            Strip(Replace(s.messages[Len(s.messages)].content, "evaluate:"))
          current_question ==
            IF s.current_question # None THEN s.current_question
            ELSE IF s.questions_generated # <<>>
                 THEN Some(s.questions_generated[s.current_question_index + 1])
                 ELSE None
      IN IF current_question = None THEN [s EXCEPT !.error_occurred = TRUE]
         ELSE IF ~llm.ok THEN [s EXCEPT !.error_occurred = TRUE]
         ELSE [s EXCEPT
                 !.evaluation_result = Some(llm.result),
                 !.correct_answers = IF llm.result.is_correct THEN @ + 1 ELSE @,
                 !.total_questions = @ + 1,
                 !.student_responses = Append(@,
                     [question |-> current_question[1].question,
                      student_answer |-> student_answer,
                      is_correct |-> llm.result.is_correct,
                      feedback |-> llm.result.feedback,
                      score |-> llm.result.score])]

CreateExplanationNode(s, llm) ==
    IF llm.ok THEN [s EXCEPT !.explanation_content = llm.result]
    ELSE [s EXCEPT !.error_occurred = TRUE]

GenerateLearningPlanNode(s, llm) ==
    IF llm.ok THEN [s EXCEPT !.learning_plan = Some(llm.result)]
    ELSE [s EXCEPT !.error_occurred = TRUE]

ErrorMessage(session_type) ==
    CASE session_type = "practice" -> "Oops! Let's try a different practice problem!"
      [] session_type = "assessment" -> "Let's continue with your assessment!"
      [] session_type = "explanation" -> "Let me try explaining that again!"
      [] OTHER -> "I'm having trouble right now. Let's try again!"

HandleErrorClearsQuestion(s) ==
    [s EXCEPT !.messages = Append(@, AIMessage(<<ErrorMessage(s.session_type)>>)),
              !.error_occurred = FALSE,
              !.current_question = None]

HandleError(s) ==
    [s EXCEPT !.messages = Append(@, AIMessage(<<ErrorMessage(s.session_type)>>)),
              !.error_occurred = FALSE]

----------------------------------------------------------------------------
(* The conditions and the edges *)

RoutingCondition(s) ==
    IF s.error_occurred THEN "error"
    ELSE IF s.messages = <<>> THEN "error"
    ELSE
      LET last_message == Lower(s.messages[Len(s.messages)].content)
      IN IF Contains("evaluate:", last_message) THEN "evaluate_answer"
         ELSE IF s.session_type = "explanation" THEN "create_explanation"
         ELSE IF Contains("learning_plan", last_message)
                 \/ s.session_type = "learning_plan" THEN "generate_plan"
         ELSE IF s.session_type \in {"practice", "assessment"} THEN "generate_question"
         ELSE "error"

QuestionCondition(s) ==
    IF s.error_occurred THEN "error"
    ELSE IF s.needs_validation THEN "validate"
    ELSE "complete"

ValidationConditionRetriesAtThree(s) ==
    IF s.error_occurred THEN "error"
    ELSE IF s.retry_count > 0 /\ s.retry_count <= 3 THEN "retry"
    ELSE "approved"

ValidationCondition(s) ==
    IF s.error_occurred THEN "error"
    ELSE IF s.retry_count > 0 /\ s.retry_count < 3 THEN "retry"
    ELSE "approved"

\* _build_graph: the conditional edges of each routing node
RouteEdges(c) ==
    CASE c = "generate_question" -> "generate_question"
      [] c = "evaluate_answer" -> "evaluate_answer"
      [] c = "create_explanation" -> "create_explanation"
      [] c = "generate_plan" -> "generate_learning_plan"
      [] c = "error" -> "handle_error"

QuestionEdges(c) ==
    CASE c = "validate" -> "validate_question"
      [] c = "complete" -> "END"
      [] c = "error" -> "handle_error"

ValidationEdges(c) ==
    CASE c = "approved" -> "END"
      [] c = "retry" -> "generate_question"
      [] c = "error" -> "handle_error"

\* _build_graph: the target of the edge taken after node n has run on s
Edge(n, s) ==
    CASE n = "route_request" -> RouteEdges(RoutingCondition(s))
      [] n = "generate_question" -> QuestionEdges(QuestionCondition(s))
      [] n = "validate_question" -> ValidationEdges(ValidationCondition(s))
      [] n = "evaluate_answer" -> "END"
      [] n = "create_explanation" -> "END"
      [] n = "generate_learning_plan" -> "END"
      [] n = "handle_error" -> "END"

\* the LLM answers a node can receive; a node that returns before its chain
\* is invoked, or has no chain, receives none
LLMAnswers(n, s, world) ==
    CASE n = "generate_question" ->
           QuestionAnswers(world.levels)
      [] n = "validate_question" ->
           IF s.current_question = None THEN NoAnswer
           ELSE ValidationAnswers(world.improvements)
      [] n = "evaluate_answer" ->
           IF s.messages = <<>>
              \/ (s.current_question = None /\ s.questions_generated = <<>>)
           THEN NoAnswer ELSE EvaluationAnswers
      [] n = "create_explanation" -> ExplanationAnswers
      [] n = "generate_learning_plan" -> PlanAnswers
      [] OTHER -> NoAnswer

\* one node execution
RunNode(n, s, llm) ==
    CASE n = "route_request" -> RouteRequest(s)
      [] n = "generate_question" -> GenerateQuestionNode(s, llm)
      [] n = "validate_question" -> ValidateQuestion(s, llm)
      [] n = "evaluate_answer" -> EvaluateAnswerNode(s, llm)
      [] n = "create_explanation" -> CreateExplanationNode(s, llm)
      [] n = "generate_learning_plan" -> GenerateLearningPlanNode(s, llm)
      [] n = "handle_error" -> HandleError(s)

----------------------------------------------------------------------------
(* graph.invoke, as one call: the final states an invocation can end in *)

Successors(n, s, world) ==
    {[node |-> Edge(n, RunNode(n, s, llm)), state |-> RunNode(n, s, llm)] :
        llm \in LLMAnswers(n, s, world)}

RECURSIVE Reach(_, _, _)
Reach(frontier, finals, world) ==
    IF frontier = {} THEN finals
    ELSE LET next == UNION {Successors(p.node, p.state, world) : p \in frontier}
         IN Reach({q \in next : q.node # "END"},
                  finals \cup {q.state : q \in {r \in next : r.node = "END"}},
                  world)

Invoke(initial_state, world) ==
    Reach({[node |-> "route_request", state |-> initial_state]}, {}, world)

----------------------------------------------------------------------------
(* The public interface of TutorGraph: initial states and results *)

GenerateQuestionInitial(subject, grade, topic, subtopic, difficulty) ==
    [TutorState(<<HumanMessage(<<"Generate question for ">> \o subtopic)>>,
                subject, grade, topic, subtopic, "practice")
        EXCEPT !.difficulty_level = difficulty]

EvaluateAnswerInitial(subject, grade, topic, subtopic, question, student_answer) ==
    [TutorState(<<HumanMessage(<<"evaluate:">> \o student_answer)>>,
                subject, grade, topic, subtopic, "evaluation")
        EXCEPT !.current_question = Some(question)]

CreateExplanationInitial(subject, grade, topic, subtopic) ==
    TutorState(<<HumanMessage(<<"Explain ">> \o subtopic)>>,
               subject, grade, topic, subtopic, "explanation")

RECURSIVE CountCorrect(_)
CountCorrect(responses) ==
    IF responses = <<>> THEN 0
    ELSE (IF Head(responses).is_correct THEN 1 ELSE 0) + CountCorrect(Tail(responses))

GenerateLearningPlanInitial(subject, grade, topic, subtopic, responses) ==
    [TutorState(<<HumanMessage(<<"Generate ", "learning_plan">>)>>,
                subject, grade, topic, subtopic, "learning_plan")
        EXCEPT !.student_responses = responses,
               !.total_questions = Len(responses),
               !.correct_answers = CountCorrect(responses)]

\* what each public method returns from the final state of its invocation
GenerateQuestionResult(result) == result.current_question
EvaluateAnswerResult(result) == result.evaluation_result
CreateExplanationResult(result) == result.explanation_content
GenerateLearningPlanResult(result) == result.learning_plan

----------------------------------------------------------------------------
(* Bounds, the initial state, and TutorGraph node by node *)

MaxSessions == 2       \* sessions ever created
MaxQuestions == 1      \* questions held by all sessions together
LongQuestions == 6     \* the same, in the runs of one long session
MaxRows == 1           \* learning_sessions rows
OneSession == {1}      \* the session ids of the runs of one long session

NothingAsked(initial_state) ==
    [initial |-> initial_state, calls |-> 0, generated |-> None, improved |-> None]

InitWith(ids, questions) ==
    /\ node = "idle"
    /\ state = TutorState(<<>>, "Mathematics", "3", "Numbers", <<"w">>, "")
    /\ op = "none"
    /\ ret = [op |-> "none"]
    /\ trace = <<>>
    /\ errorSet = FALSE
    /\ validations = <<>>
    /\ asked = NothingAsked(TutorState(<<>>, "Mathematics", "3", "Numbers", <<"w">>, ""))
    /\ current_sessions = <<>>
    /\ next_session = 1
    /\ db = [students |-> <<>>, learning_sessions |-> <<>>, question_responses |-> <<>>]
    /\ out = [op |-> "none"]
    /\ shown = <<>>
    /\ limit = [ids |-> ids, questions |-> questions]
    /\ cache = <<>>
    /\ files = {}
    /\ speech = [op |-> "none"]
    /\ spoken = <<>>

Init == InitWith(1..MaxSessions, MaxQuestions)
LongInit == InitWith(OneSession, LongQuestions)

Start(name, initial_state) ==
    /\ node' = "route_request"
    /\ state' = initial_state
    /\ op' = name
    /\ trace' = <<>>
    /\ errorSet' = FALSE
    /\ validations' = <<>>
    /\ asked' = NothingAsked(initial_state)
    /\ UNCHANGED <<ret, svars, tvars>>

CallGenerateQuestion ==
    /\ node = "idle"
    /\ \E subject \in Subjects, grade \in Grades, topic \in Topics,
       subtopic \in Subtopics, difficulty \in Difficulties :
        Start("generate_question",
              GenerateQuestionInitial(subject, grade, topic, subtopic, difficulty))

CallEvaluateAnswer ==
    /\ node = "idle"
    /\ \E subject \in Subjects, grade \in Grades, topic \in Topics,
       subtopic \in Subtopics, text \in {"Q", "Qimproved"}, answer \in Answers :
        Start("evaluate_answer",
              EvaluateAnswerInitial(subject, grade, topic, subtopic,
                                    [GeneratedQuestion(1) EXCEPT !.question = text],
                                    answer))

CallCreateExplanation ==
    /\ node = "idle"
    /\ \E subject \in Subjects, grade \in Grades, topic \in Topics,
       subtopic \in Subtopics :
        Start("create_explanation",
              CreateExplanationInitial(subject, grade, topic, subtopic))

SampleResponses ==
    {<<>>,
     <<[question |-> "Q", student_answer |-> <<"w">>, is_correct |-> TRUE,
        feedback |-> "F", score |-> 1]>>}

CallGenerateLearningPlan ==
    /\ node = "idle"
    /\ \E subject \in Subjects, grade \in Grades, topic \in Topics,
       subtopic \in Subtopics, responses \in SampleResponses :
        Start("generate_learning_plan",
              GenerateLearningPlanInitial(subject, grade, topic, subtopic, responses))

\* self.graph.invoke(initial_state) with a state no public method builds
InvokeMessages ==
    {<<>>} \cup {<<HumanMessage(content)>> :
                    content \in {<<"w">>, <<"evaluate:", "w">>, <<"EVALUATE:", "w">>,
                                 <<"LEARNING_PLAN">>}}
InvokeSessionTypes == {"", "evaluation", "practice"}

CallInvoke ==
    /\ node = "idle"
    /\ \E messages \in InvokeMessages, session_type \in InvokeSessionTypes,
          current_question \in {None, Some(GeneratedQuestion(1))} :
        Start("invoke",
              [TutorState(messages, "Mathematics", "3", "Numbers", <<"w">>, session_type)
                  EXCEPT !.current_question = current_question])

Verdict(llm) ==
    IF ~llm.ok THEN "failed" ELSE IF llm.is_valid THEN "valid" ELSE "invalid"

Node(n) ==
    /\ \E llm \in LLMAnswers(n, state, AnyAnswer) :
        LET s2 == RunNode(n, state, llm)
        IN /\ state' = s2
           /\ node' = Edge(n, s2)
           /\ errorSet' = (errorSet \/ (s2.error_occurred /\ ~state.error_occurred))
           /\ validations' =
                IF n = "validate_question" /\ state.current_question # None
                THEN Append(validations, Verdict(llm)) ELSE validations
           /\ asked' =
                [initial |-> asked.initial,
                 calls |-> IF LLMAnswers(n, state, AnyAnswer) = NoAnswer
                           THEN asked.calls ELSE asked.calls + 1,
                 generated |-> IF n = "generate_question" /\ llm.ok
                               THEN Some(llm.result) ELSE asked.generated,
                 improved |-> IF n = "validate_question" /\ llm.ok
                                 /\ state.current_question # None
                              THEN llm.improved_question ELSE asked.improved]
    /\ trace' = Append(trace, n)
    /\ UNCHANGED <<op, ret, svars, tvars>>

RunRouteRequest ==
    /\ node = "route_request"
    /\ Node("route_request")

RunGenerateQuestion ==
    /\ node = "generate_question"
    /\ Node("generate_question")

RunValidateQuestion ==
    /\ node = "validate_question"
    /\ Node("validate_question")

RunEvaluateAnswer ==
    /\ node = "evaluate_answer"
    /\ Node("evaluate_answer")

RunCreateExplanation ==
    /\ node = "create_explanation"
    /\ Node("create_explanation")

RunGenerateLearningPlan ==
    /\ node = "generate_learning_plan"
    /\ Node("generate_learning_plan")

RunHandleError ==
    /\ node = "handle_error"
    /\ Node("handle_error")


Value(name, result) ==
    CASE name = "generate_question" -> GenerateQuestionResult(result)
      [] name = "evaluate_answer" -> EvaluateAnswerResult(result)
      [] name = "create_explanation" -> CreateExplanationResult(result)
      [] name = "generate_learning_plan" -> GenerateLearningPlanResult(result)

Return ==
    /\ node = "END"
    /\ node' = "idle"
    /\ ret' = IF op = "invoke" THEN ret   \* no public method: the result is state
              ELSE [op |-> op, value |-> Value(op, state)]
    /\ UNCHANGED <<state, op, trace, errorSet, validations, asked, svars, tvars>>

GraphNext ==
    \/ CallGenerateQuestion
    \/ CallEvaluateAnswer
    \/ CallCreateExplanation
    \/ CallGenerateLearningPlan
    \/ CallInvoke
    \/ RunRouteRequest
    \/ RunGenerateQuestion
    \/ RunValidateQuestion
    \/ RunEvaluateAnswer
    \/ RunCreateExplanation
    \/ RunGenerateLearningPlan
    \/ RunHandleError
    \/ Return

GraphSpec == Init /\ [][GraphNext]_vars

\* the graph executor runs the node it is at; a public method returns
FairGraphSpec ==
    GraphSpec /\ WF_vars(RunRouteRequest \/ RunGenerateQuestion
                          \/ RunValidateQuestion \/ RunEvaluateAnswer
                          \/ RunCreateExplanation \/ RunGenerateLearningPlan
                          \/ RunHandleError \/ Return)

----------------------------------------------------------------------------
(* Claims about TutorGraph *)

NodeRuns(n) == Cardinality({i \in 1..Len(trace) : trace[i] = n})
Ran(n) == NodeRuns(n) > 0
Returned(name) == node = "idle" /\ op = name

\* C1: every invocation started by a public operation reaches END, and in
\* one invocation the generate_question node and the validate_question node
\* each run at most 3 times.
C1_InvocationTerminates ==
    /\ [](NodeRuns("generate_question") <= 3 /\ NodeRuns("validate_question") <= 3)
    /\ (node = "route_request") ~> (node = "END")

\* C1 witness: an invocation at END after three generations and three
\* validations
C1_ThreeAttempts ==
    /\ node = "END"
    /\ NodeRuns("generate_question") = 3
    /\ NodeRuns("validate_question") = 3

\* C2: generate_question returns a question only if the last validation of
\* the invocation said is_valid = true; when the validator rejects every
\* attempt or a generation or validation call fails it returns None.
C2_ReturnsOnlyValidatedQuestion ==
    Returned("generate_question") /\ Ran("generate_question") =>
        /\ ret.value # None =>
             validations # <<>> /\ validations[Len(validations)] = "valid"
        /\ (errorSet \/ (validations # <<>> /\ \A i \in 1..Len(validations) :
                                                  validations[i] = "invalid"))
             => ret.value = None

\* C3: each public operation runs its own worker node after route_request,
\* whatever the texts contain.
C3_OwnWorkerNode ==
    op # "invoke" /\ Len(trace) >= 2 => trace[2] = op

\* C4: whenever a node sets error_occurred, handle_error runs before END:
\* the invocation ends with error_occurred = false and, after an error,
\* with exactly one apology AIMessage appended.
C4_ErrorsAreHandled ==
    node = "END" =>
        /\ ~state.error_occurred
        /\ errorSet =>
             /\ NodeRuns("handle_error") = 1
             /\ Len(state.messages) = Len(asked.initial.messages) + 1
             /\ state.messages[Len(state.messages)].type = "ai"

----------------------------------------------------------------------------
(* Settings and bounds *)

questions_per_assessment == 5

Students == {"ann"}
SessionSubjects == {"Mathematics"}
FriendlyTopics == {"Number Adventures"}
SessionSubtopics == {<<"w">>}
SessionAnswers == {<<"w">>}
SessionIds == limit.ids
NoSession == 0      \* the "" returned in place of a session id

\* _get_actual_topic over TOPIC_LABELS
ActualTopic(friendly_topic) ==
    CASE friendly_topic = "Number Adventures" -> "Numbers"
      [] friendly_topic = "Grammar Adventures" -> "Grammar"
      [] OTHER -> friendly_topic

----------------------------------------------------------------------------
(* The store *)

\* json.dumps, the serializer of a JSON column, accepts these Python types
JsonTypes == {"str", "int", "float", "bool", "list", "dict", "NoneType"}

\* the Python types of the values in a session dict
SessionTypes(session) ==
    {"str", "int", "list", session.start_time.type}
        \cup (IF session.questions # <<>> THEN {"QuestionContent"} ELSE {})
        \cup (IF session.responses # <<>> THEN {"dict", "bool", "float"} ELSE {})

JsonSerializable(types) == types \subseteq JsonTypes

\* get_or_create_student: the id of the student and the store afterwards
StudentId(d, name, grade) ==
    LET found == {i \in 1..Len(d.students) : d.students[i] = [name |-> name, grade |-> grade]}
    IN IF found # {} THEN CHOOSE i \in found : \A j \in found : i <= j
       ELSE Len(d.students) + 1

GetOrCreateStudent(d, name, grade) ==
    IF StudentId(d, name, grade) <= Len(d.students) THEN d
    ELSE [d EXCEPT !.students = Append(@, [name |-> name, grade |-> grade])]

\* save_learning_session: the commit raises when session_data cannot be
\* serialized, and then no row is stored
SaveLearningSession(d, row, types) ==
    IF JsonSerializable(types)
    THEN [ok |-> TRUE, db |-> [d EXCEPT !.learning_sessions = Append(@, row)]]
    ELSE [ok |-> FALSE, db |-> d]

QuestionResponseRow(row_id, response) ==
    [session_id |-> row_id,
     question_text |-> response.question,
     student_answer |-> response.student_answer,
     is_correct |-> response.is_correct,
     feedback |-> response.feedback]

\* _save_session_to_db: the store afterwards
SaveSessionToDb(d, session_id) ==
    IF session_id \notin DOMAIN current_sessions THEN d
    ELSE
      LET session == current_sessions[session_id]
          d1 == GetOrCreateStudent(d, session.student_name, session.grade)
          saved == SaveLearningSession(d1,
                     [student_id |-> StudentId(d, session.student_name, session.grade),
                      subject |-> session.subject,
                      topic |-> ActualTopic(session.topic),
                      subtopic |-> session.subtopic,
                      session_type |-> session.session_type,
                      session |-> session_id,
                      questions_attempted |-> Len(session.responses),
                      questions_correct |-> CountCorrect(session.responses)],
                     SessionTypes(session))
          row_id == Len(saved.db.learning_sessions)
      IN IF ~saved.ok THEN saved.db
         ELSE [saved.db EXCEPT !.question_responses =
                 @ \o [i \in 1..Len(session.responses) |->
                         QuestionResponseRow(row_id, session.responses[i])]]

----------------------------------------------------------------------------
(* TutorService *)

\* create_session: the new session dict
NewSession(student_name, grade, subject, topic, subtopic, session_type) ==
    [student_name |-> student_name,
     grade |-> grade,
     subject |-> subject,
     topic |-> topic,
     subtopic |-> subtopic,
     session_type |-> session_type,
     questions |-> <<>>,
     responses |-> <<>>,
     start_time |-> [type |-> "datetime"],
     current_difficulty |-> 1,
     current_question_index |-> 0]

\* tutor_graph.generate_question for every argument a session can pass
QuestionTable ==
    [a \in SessionSubjects \X Grades \X Topics \X SessionSubtopics \X Difficulties |->
        {GenerateQuestionResult(result) :
            result \in Invoke(GenerateQuestionInitial(a[1], a[2], a[3], a[4], a[5]),
                              PlainAnswer)}]

RequestedDifficultyAtStart(session) == 1

\* difficulty=session["current_difficulty"]
RequestedDifficulty(session) == session.current_difficulty

\* _generate_next_question: the questions (or None) it can return
GenerateNextQuestion(session) ==
    QuestionTable[<<session.subject, session.grade, ActualTopic(session.topic),
                    session.subtopic, RequestedDifficulty(session)>>]

\* the questions a session can hold
SessionQuestions ==
    {q[1] : q \in UNION {QuestionTable[a] : a \in DOMAIN QuestionTable} \ {None}}

\* tutor_graph.evaluate_answer for every argument a session can pass
EvaluationTable ==
    [a \in SessionSubjects \X Grades \X Topics \X SessionSubtopics
            \X SessionQuestions \X SessionAnswers |->
        {EvaluateAnswerResult(result) :
            result \in Invoke(EvaluateAnswerInitial(a[1], a[2], a[3], a[4], a[5], a[6]),
                              PlainAnswer)}]

\* tutor_graph.evaluate_answer as the submit operations call it
Evaluations(session, question, answer) ==
    EvaluationTable[<<session.subject, session.grade, ActualTopic(session.topic),
                      session.subtopic, question, answer>>]

\* tutor_graph.generate_learning_plan as the summary and the report call it
LearningPlans(session) ==
    {GenerateLearningPlanResult(result) :
        result \in Invoke(GenerateLearningPlanInitial(session.subject, session.grade,
                              ActualTopic(session.topic), session.subtopic,
                              session.responses), PlainAnswer)}

ResponseData(question, answer, evaluation) ==
    [question |-> question.question,
     student_answer |-> answer,
     is_correct |-> evaluation.is_correct,
     feedback |-> evaluation.feedback,
     score |-> evaluation.score]

RECURSIVE SumQuestions(_)
SumQuestions(ids) ==
    IF ids = {} THEN 0
    ELSE LET i == CHOOSE j \in ids : TRUE
         IN Len(current_sessions[i].questions) + SumQuestions(ids \ {i})
QuestionsHeld == SumQuestions(DOMAIN current_sessions)

NotAssessmentOnly == [numbers |-> <<>>, assessment_only |-> FALSE]

SessionNotFoundIfNeverCreated(session_id) == session_id >= next_session

\* if session_id not in self.current_sessions
SessionNotFound(session_id) == session_id \notin DOMAIN current_sessions

\* self.current_sessions[session_id] raises KeyError
KeyError(session_id) == session_id \notin DOMAIN current_sessions

\* start_assessment and start_practice
StartSession(name, session_type, first_shown) ==
    /\ next_session \in limit.ids
    /\ QuestionsHeld < limit.questions
    /\ \E student_name \in Students, grade \in Grades, subject \in SessionSubjects,
          topic \in FriendlyTopics, subtopic \in SessionSubtopics :
        LET session_id == next_session
            session == NewSession(student_name, grade, subject, topic, subtopic,
                                  session_type)
        IN \E question \in GenerateNextQuestion(session) :
            IF question # None
            THEN /\ current_sessions' = current_sessions @@
                       (session_id :> [session EXCEPT !.questions = <<question[1]>>])
                 /\ out' = [op |-> name, session_id |-> session_id,
                            kind |-> "question", text |-> question[1].question,
                            number |-> Len(first_shown),
                            difficulty |-> RequestedDifficulty(session)]
                 /\ shown' = shown @@
                       (session_id :> [numbers |-> first_shown,
                                       assessment_only |-> session_type = "assessment"])
            ELSE /\ current_sessions' = current_sessions @@ (session_id :> session)
                 /\ out' = [op |-> name, session_id |-> NoSession, kind |-> "trouble",
                            difficulty |-> RequestedDifficulty(session)]
                 /\ shown' = shown @@
                       (session_id :> [numbers |-> <<>>,
                                       assessment_only |-> session_type = "assessment"])
    /\ next_session' = next_session + 1
    /\ UNCHANGED <<db, gvars, limit, tvars>>

StartAssessment ==
    /\ node = "idle"
    /\ StartSession("start_assessment", "assessment", <<1>>)

StartPractice ==
    /\ node = "idle"
    /\ StartSession("start_practice", "practice", <<>>)

NoQuestionToAnswerOffByOne(session) == Len(session.responses) > Len(session.questions)

\* current_q_index >= len(session["questions"])
NoQuestionToAnswer(session) == Len(session.responses) >= Len(session.questions)

CanContinueThroughLast(questions_answered) ==
    questions_answered <= questions_per_assessment

\* can_continue = questions_answered < total_questions
CanContinue(questions_answered) == questions_answered < questions_per_assessment

\* the adjusted current_difficulty
AdjustedDifficulty(current_difficulty, is_correct) ==
    IF is_correct
    THEN (IF current_difficulty + 1 < 5 THEN current_difficulty + 1 ELSE 5)
    ELSE (IF current_difficulty - 1 > 1 THEN current_difficulty - 1 ELSE 1)

\* submit_assessment_answer and submit_practice_answer
SubmitAnswer(name, session_id, answer) ==
    IF SessionNotFound(session_id)
    THEN /\ out' = [op |-> name, session_id |-> session_id, kind |-> "not_found",
                    recorded |-> FALSE, can_continue |-> FALSE, evaluator_called |-> FALSE]
         /\ UNCHANGED <<current_sessions, shown>>
    ELSE IF KeyError(session_id)
    THEN \* caught by the method
         /\ out' = [op |-> name, session_id |-> session_id, kind |-> "error",
                    recorded |-> FALSE, can_continue |-> name = "submit_assessment_answer",
                    evaluator_called |-> FALSE]
         /\ UNCHANGED <<current_sessions, shown>>
    ELSE
      LET session == current_sessions[session_id]
          current_q_index == Len(session.responses)
      IN IF NoQuestionToAnswer(session)
         THEN /\ out' = [op |-> name, session_id |-> session_id, kind |-> "no_question",
                         recorded |-> FALSE, can_continue |-> FALSE,
                         evaluator_called |-> FALSE]
              /\ UNCHANGED <<current_sessions, shown>>
         ELSE IF current_q_index + 1 \notin DOMAIN session.questions
         THEN \* IndexError, caught by the method
              /\ out' = [op |-> name, session_id |-> session_id, kind |-> "error",
                         recorded |-> FALSE, can_continue |-> name = "submit_assessment_answer",
                         evaluator_called |-> FALSE]
              /\ UNCHANGED <<current_sessions, shown>>
         ELSE
           LET current_question == session.questions[current_q_index + 1]
           IN \E evaluation \in Evaluations(session, current_question, answer) :
                IF evaluation = None
                THEN /\ out' = [op |-> name, session_id |-> session_id,
                                kind |-> "trouble", recorded |-> FALSE,
                                can_continue |-> name = "submit_assessment_answer",
                                evaluator_called |-> TRUE]
                     /\ UNCHANGED <<current_sessions, shown>>
                ELSE
                  LET responses == Append(session.responses,
                                     ResponseData(current_question, answer, evaluation[1]))
                  IN IF name = "submit_assessment_answer"
                     THEN /\ current_sessions' =
                                [current_sessions EXCEPT ![session_id].responses = responses]
                          /\ out' = [op |-> name, session_id |-> session_id,
                                     kind |-> "feedback", recorded |-> TRUE,
                                     can_continue |-> CanContinue(Len(responses)),
                                     evaluator_called |-> TRUE]
                          /\ UNCHANGED shown
                     ELSE /\ current_sessions' =
                                [current_sessions EXCEPT
                                   ![session_id].responses = responses,
                                   ![session_id].current_difficulty =
                                       AdjustedDifficulty(@, evaluation[1].is_correct)]
                          /\ out' = [op |-> name, session_id |-> session_id,
                                     kind |-> "feedback", recorded |-> TRUE,
                                     can_continue |-> evaluation[1].is_correct,
                                     evaluator_called |-> TRUE]
                          /\ shown' = [shown EXCEPT ![session_id] = NotAssessmentOnly]

SubmitAssessmentAnswer ==
    /\ node = "idle"
    /\ \E session_id \in SessionIds, answer \in SessionAnswers :
          SubmitAnswer("submit_assessment_answer", session_id, answer)
    /\ UNCHANGED <<next_session, db, gvars, limit, tvars>>

SubmitPracticeAnswer ==
    /\ node = "idle"
    /\ \E session_id \in SessionIds, answer \in SessionAnswers :
          SubmitAnswer("submit_practice_answer", session_id, answer)
    /\ UNCHANGED <<next_session, db, gvars, limit, tvars>>

AssessmentCompleteOffByOne(session) ==
    Len(session.questions) > questions_per_assessment

\* current_count >= total_questions
AssessmentComplete(session) == Len(session.questions) >= questions_per_assessment

GetNextAssessmentQuestion ==
    /\ node = "idle"
    /\ \E session_id \in SessionIds :
        IF SessionNotFound(session_id)
        THEN /\ out' = [op |-> "get_next_assessment_question", session_id |-> session_id,
                        kind |-> "not_found", more |-> FALSE, graph_called |-> FALSE]
             /\ UNCHANGED <<current_sessions, shown, db>>
        ELSE IF KeyError(session_id)
        THEN \* caught by the method
             /\ out' = [op |-> "get_next_assessment_question", session_id |-> session_id,
                        kind |-> "error", more |-> FALSE, graph_called |-> FALSE]
             /\ UNCHANGED <<current_sessions, shown, db>>
        ELSE
          LET session == current_sessions[session_id]
          IN IF AssessmentComplete(session)
             THEN \* _generate_assessment_report
                  \E learning_plan \in LearningPlans(session) :
                    /\ db' = SaveSessionToDb(db, session_id)
                    /\ out' = [op |-> "get_next_assessment_question",
                               session_id |-> session_id, kind |-> "report",
                               more |-> FALSE, graph_called |-> TRUE,
                               total_questions |-> Len(session.responses),
                               correct_answers |-> CountCorrect(session.responses),
                               with_plan |-> learning_plan # None]
                    /\ UNCHANGED <<current_sessions, shown>>
             ELSE /\ QuestionsHeld < limit.questions
                  /\ \E question \in GenerateNextQuestion(session) :
                       IF question # None
                       THEN LET questions == Append(session.questions, question[1])
                            IN /\ current_sessions' =
                                    [current_sessions EXCEPT ![session_id].questions = questions]
                               /\ out' = [op |-> "get_next_assessment_question",
                                          session_id |-> session_id, kind |-> "question",
                                          more |-> TRUE, number |-> Len(questions),
                                          text |-> question[1].question,
                                          difficulty |-> RequestedDifficulty(session),
                                          graph_called |-> TRUE]
                               /\ shown' = [shown EXCEPT ![session_id].numbers =
                                               IF shown[session_id].assessment_only
                                               THEN Append(@, Len(questions)) ELSE @]
                       ELSE /\ out' = [op |-> "get_next_assessment_question",
                                       session_id |-> session_id, kind |-> "trouble",
                                       more |-> FALSE,
                                       difficulty |-> RequestedDifficulty(session),
                                       graph_called |-> TRUE]
                            /\ UNCHANGED <<current_sessions, shown>>
                  /\ UNCHANGED db
    /\ UNCHANGED <<next_session, gvars, limit, tvars>>

GetNextPracticeQuestion ==
    /\ node = "idle"
    /\ \E session_id \in SessionIds :
        IF SessionNotFound(session_id)
        THEN /\ out' = [op |-> "get_next_practice_question", session_id |-> session_id,
                        kind |-> "not_found", graph_called |-> FALSE]
             /\ UNCHANGED <<current_sessions, shown>>
        ELSE IF KeyError(session_id)
        THEN \* caught by _generate_next_question, which returns None
             /\ out' = [op |-> "get_next_practice_question", session_id |-> session_id,
                        kind |-> "trouble", graph_called |-> FALSE]
             /\ UNCHANGED <<current_sessions, shown>>
        ELSE
          LET session == current_sessions[session_id]
          IN /\ QuestionsHeld < limit.questions
             /\ \E question \in GenerateNextQuestion(session) :
                  IF question # None
                  THEN /\ current_sessions' =
                            [current_sessions EXCEPT ![session_id].questions =
                                                       Append(@, question[1])]
                       /\ out' = [op |-> "get_next_practice_question",
                                  session_id |-> session_id, kind |-> "question",
                                  text |-> question[1].question,
                                  difficulty |-> RequestedDifficulty(session),
                                  graph_called |-> TRUE]
                       /\ shown' = [shown EXCEPT ![session_id] = NotAssessmentOnly]
                  ELSE /\ out' = [op |-> "get_next_practice_question",
                                  session_id |-> session_id, kind |-> "trouble",
                                  difficulty |-> RequestedDifficulty(session),
                                  graph_called |-> TRUE]
                       /\ UNCHANGED <<current_sessions, shown>>
    /\ UNCHANGED <<next_session, db, gvars, limit, tvars>>

GetPracticeSummary ==
    /\ node = "idle"
    /\ \E session_id \in SessionIds :
        IF SessionNotFound(session_id)
        THEN /\ out' = [op |-> "get_practice_summary", session_id |-> session_id,
                        kind |-> "not_found", graph_called |-> FALSE]
             /\ UNCHANGED db
        ELSE IF KeyError(session_id)
        THEN \* caught by the method
             /\ out' = [op |-> "get_practice_summary", session_id |-> session_id,
                        kind |-> "error", graph_called |-> FALSE]
             /\ UNCHANGED db
        ELSE
          LET session == current_sessions[session_id]
          IN IF session.responses = <<>>
             THEN /\ out' = [op |-> "get_practice_summary", session_id |-> session_id,
                             kind |-> "practice_first", graph_called |-> FALSE]
                  /\ UNCHANGED db
             ELSE \E learning_plan \in LearningPlans(session) :
                    /\ db' = SaveSessionToDb(db, session_id)
                    /\ out' = [op |-> "get_practice_summary", session_id |-> session_id,
                               kind |-> "summary", graph_called |-> TRUE,
                               total_questions |-> Len(session.responses),
                               correct_answers |-> CountCorrect(session.responses),
                               with_plan |-> learning_plan # None]
    /\ UNCHANGED <<current_sessions, shown, next_session, gvars, limit, tvars>>

DelThrough(sessions, session_id) ==
    [i \in {j \in DOMAIN sessions : j > session_id} |-> sessions[i]]

\* if session_id in self.current_sessions: del self.current_sessions[session_id]
Del(sessions, session_id) ==
    [i \in DOMAIN sessions \ {session_id} |-> sessions[i]]

CleanupSession ==
    /\ node = "idle"
    /\ \E session_id \in SessionIds :
        /\ current_sessions' = Del(current_sessions, session_id)
        /\ shown' = Del(shown, session_id)
        /\ out' = [op |-> "cleanup_session", session_id |-> session_id]
    /\ UNCHANGED <<next_session, db, gvars, limit, tvars>>

\* tutor_graph.create_explanation as explain_topic calls it: the final
\* states of its invocation
Explanations(subject, grade, topic, subtopic) ==
    Invoke(CreateExplanationInitial(subject, grade, ActualTopic(topic), subtopic),
           PlainAnswer)

ExplainTopic ==
    /\ node = "idle"
    /\ Len(db.learning_sessions) < MaxRows
    /\ \E student_name \in Students, grade \in Grades, subject \in SessionSubjects,
          topic \in FriendlyTopics, subtopic \in Subtopics :
        \E result \in Explanations(subject, grade, topic, subtopic) :
          LET initial_state == CreateExplanationInitial(subject, grade,
                                   ActualTopic(topic), subtopic)
              explanation == CreateExplanationResult(result)
              d1 == GetOrCreateStudent(db, student_name, grade)
              saved == SaveLearningSession(d1,
                         [student_id |-> StudentId(db, student_name, grade),
                          subject |-> subject,
                          topic |-> ActualTopic(topic),
                          subtopic |-> subtopic,
                          session_type |-> "explanation",
                          session |-> NoSession,
                          questions_attempted |-> 0,
                          questions_correct |-> 0],
                         {"str"})
          IN /\ db' = saved.db
             /\ out' = [op |-> "explain_topic",
                        text |-> IF saved.ok THEN explanation ELSE FallbackExplanation,
                        worker |-> Edge("route_request", RouteRequest(initial_state)),
                        error_occurred |-> result.error_occurred]
    /\ UNCHANGED <<current_sessions, shown, next_session, gvars, limit, tvars>>

Next ==
    \/ StartAssessment
    \/ SubmitAssessmentAnswer
    \/ GetNextAssessmentQuestion
    \/ StartPractice
    \/ SubmitPracticeAnswer
    \/ GetNextPracticeQuestion
    \/ GetPracticeSummary
    \/ CleanupSession

\* the sessions of TutorService: two sessions, few questions
Spec == Init /\ [][Next]_vars

\* one session, enough questions for a whole assessment
LongSpec == LongInit /\ [][Next]_vars

\* explanations: explain_topic, and create_explanation node by node
ExplainNext ==
    \/ ExplainTopic
    \/ CallCreateExplanation
    \/ RunRouteRequest
    \/ RunCreateExplanation
    \/ RunEvaluateAnswer
    \/ Return

ExplainSpec == Init /\ [][ExplainNext]_vars

----------------------------------------------------------------------------
(* Claims about TutorService *)

SubmitOperations == {"submit_assessment_answer", "submit_practice_answer"}
Live(session_id) == session_id \in DOMAIN current_sessions
ReportShown == out.op = "get_next_assessment_question" /\ out.kind = "report"
SummaryShown == out.op = "get_practice_summary" /\ out.kind = "summary"

\* the learning_sessions rows stored for a session
RowsOf(session_id) ==
    {i \in 1..Len(db.learning_sessions) : db.learning_sessions[i].session = session_id}

\* the question_responses rows linked to a learning_sessions row
ResponseRows(row_id) ==
    LET linked(r) == r.session_id = row_id IN SelectSeq(db.question_responses, linked)

\* C6: after get_practice_summary on a session with k >= 1 responses, or
\* after the assessment report, the store holds a learning_sessions row for
\* the session with questions_attempted = k and questions_correct = the
\* number of correct responses, and k question_responses rows linked to it,
\* one per response in order.
C6_SessionHistoryPersisted ==
    (SummaryShown \/ ReportShown) /\ Live(out.session_id) =>
        LET session == current_sessions[out.session_id]
        IN \E i \in RowsOf(out.session_id) :
            /\ db.learning_sessions[i].questions_attempted = Len(session.responses)
            /\ db.learning_sessions[i].questions_correct = CountCorrect(session.responses)
            /\ ResponseRows(i) = [k \in 1..Len(session.responses) |->
                                    QuestionResponseRow(i, session.responses[k])]

\* C7: in every session the number of recorded responses never exceeds the
\* number of questions held; a submit operation on a session without an
\* unanswered question returns "No question to answer" and does not call
\* the evaluator.
C7_ResponsesWithinQuestions ==
    /\ \A i \in DOMAIN current_sessions :
          Len(current_sessions[i].responses) <= Len(current_sessions[i].questions)
    /\ out.op \in SubmitOperations /\ Live(out.session_id) =>
          LET session == current_sessions[out.session_id]
          IN /\ out.kind = "no_question" => ~out.recorded /\ ~out.evaluator_called
             /\ ~out.recorded /\ Len(session.responses) >= Len(session.questions)
                  => out.kind = "no_question"

\* C7 witness: a submit operation was refused on a session whose questions
\* are all answered
C7_RefusedWithAllAnswered ==
    /\ out.op \in SubmitOperations
    /\ out.kind = "no_question"
    /\ Live(out.session_id)
    /\ Len(current_sessions[out.session_id].responses) >= 1
    /\ Len(current_sessions[out.session_id].responses) =
         Len(current_sessions[out.session_id].questions)

\* C8: a session filled by assessment operations only holds at most
\* questions_per_assessment questions, and the question numbers shown for
\* it are 1, 2, ... in order, one per question held.
C8_AssessmentNumbering ==
    \A i \in DOMAIN current_sessions :
        shown[i].assessment_only =>
            /\ Len(current_sessions[i].questions) <= questions_per_assessment
            /\ shown[i].numbers = [k \in 1..Len(current_sessions[i].questions) |-> k]

\* C8 witness: the fifth question of an assessment has just been shown
C8_FifthQuestionShown ==
    /\ out.op = "get_next_assessment_question"
    /\ out.kind = "question"
    /\ out.number = questions_per_assessment
    /\ Live(out.session_id)
    /\ shown[out.session_id].assessment_only
    /\ shown[out.session_id].numbers = <<1, 2, 3, 4, 5>>

\* C9: get_next_assessment_question produces the assessment report only
\* when the session holds questions_per_assessment recorded responses.
C9_ReportOnlyWhenAllAnswered ==
    ReportShown /\ Live(out.session_id) =>
        Len(current_sessions[out.session_id].responses) = questions_per_assessment

\* C10: when submit_assessment_answer records an answer, can_continue is
\* true exactly if the session then holds fewer than 5 responses; a session
\* filled by assessment operations only never records a sixth answer, so
\* its first four recorded answers return true and the fifth false.
C10_CanContinue ==
    out.op = "submit_assessment_answer" /\ out.recorded /\ Live(out.session_id) =>
        LET answered == Len(current_sessions[out.session_id].responses)
        IN /\ out.can_continue <=> answered < 5
           /\ shown[out.session_id].assessment_only =>
                /\ answered <= 5
                /\ out.can_continue <=> answered \in 1..4
                /\ ~out.can_continue <=> answered = 5

\* C10 witness: the fifth answer of an assessment was recorded and the
\* operation said the assessment cannot continue
C10_FifthAnswerRecorded ==
    /\ out.op = "submit_assessment_answer"
    /\ out.recorded
    /\ ~out.can_continue
    /\ Live(out.session_id)
    /\ shown[out.session_id].assessment_only
    /\ Len(current_sessions[out.session_id].responses) = 5

\* C5: when the LLM call inside the create_explanation node fails, the
\* public create_explanation, and with it explain_topic, returns the fixed
\* fallback text and never the empty string.
C5_FallbackOnFailure ==
    /\ Returned("create_explanation") /\ Ran("create_explanation") /\ errorSet =>
          ret.value = FallbackExplanation /\ ret.value # ""
    /\ out.op = "explain_topic" /\ out.worker = "create_explanation"
          /\ out.error_occurred =>
          out.text = FallbackExplanation /\ out.text # ""

\* the operations that request a question
QuestionOperations ==
    {"start_assessment", "start_practice",
     "get_next_assessment_question", "get_next_practice_question"}

\* the session an operation that requested a question acted on
Requester ==
    IF out.op \in {"start_assessment", "start_practice"} THEN next_session - 1
    ELSE out.session_id

\* a practice answer was recorded for session i in this step
PracticeAnswerRecorded(i) ==
    /\ i \in DOMAIN current_sessions /\ i \in DOMAIN current_sessions'
    /\ out'.op = "submit_practice_answer" /\ out'.kind = "feedback"
    /\ out'.session_id = i

\* C11: current_difficulty starts at 1 and stays within 1..5; each recorded
\* practice answer moves it one step, up when correct and down when not,
\* saturating at 5 and at 1; a question is requested at exactly the
\* session's current_difficulty.
C11_DifficultySteps ==
    /\ [](\A i \in DOMAIN current_sessions :
            current_sessions[i].current_difficulty \in 1..5)
    /\ [](out.op \in QuestionOperations /\ out.kind \in {"question", "trouble"} =>
            /\ Requester \in DOMAIN current_sessions
            /\ out.difficulty = current_sessions[Requester].current_difficulty)
    /\ [][\A i \in SessionIds :
            /\ i \notin DOMAIN current_sessions /\ i \in DOMAIN current_sessions' =>
                  current_sessions'[i].current_difficulty = 1
            /\ PracticeAnswerRecorded(i) =>
                  LET before == current_sessions[i].current_difficulty
                      after == current_sessions'[i].current_difficulty
                      responses == current_sessions'[i].responses
                  IN /\ Len(responses) = Len(current_sessions[i].responses) + 1
                     /\ after = IF responses[Len(responses)].is_correct
                                THEN (IF before = 5 THEN 5 ELSE before + 1)
                                ELSE (IF before = 1 THEN 1 ELSE before - 1)]_vars

\* five correct practice answers, the fifth at difficulty 5 already, and the
\* sixth question requested at difficulty 5
C11_SixthQuestionAtFive ==
    /\ out.op = "get_next_practice_question" /\ out.kind = "question"
    /\ out.difficulty = 5
    /\ out.session_id \in DOMAIN current_sessions
    /\ Len(current_sessions[out.session_id].responses) = 5
    /\ CountCorrect(current_sessions[out.session_id].responses) = 5

\* the operations on an existing session
SessionOperations ==
    SubmitOperations \cup {"get_next_assessment_question",
                           "get_next_practice_question", "get_practice_summary"}

\* the operation called a method of TutorGraph, the only place of LLM calls
GraphCalled(o) ==
    IF o.op \in SubmitOperations THEN o.evaluator_called ELSE o.graph_called

\* C12: for a session_id that is not in current_sessions each of the five
\* session operations returns its 'Session not found' result, calls no LLM,
\* writes nothing to the store and leaves current_sessions unchanged.
C12_UnknownSession ==
    [][out'.op \in SessionOperations /\ out'.session_id \notin DOMAIN current_sessions =>
          /\ out'.kind = "not_found"
          /\ ~GraphCalled(out')
          /\ db' = db
          /\ current_sessions' = current_sessions]_vars

\* 'Session not found' for the id of a session that was cleaned up, while
\* another session is live
C12_NotFoundAfterCleanup ==
    /\ out.op = "get_practice_summary" /\ out.kind = "not_found"
    /\ out.session_id < next_session
    /\ current_sessions # <<>>

\* C13: cleanup_session(id) removes exactly the entry for id and leaves every
\* other session unchanged; for an unknown id, and so when called a second
\* time, it changes nothing; a session leaves current_sessions in no other
\* way, and once it has left every session operation on its id reports
\* 'Session not found'.
C13_CleanupSession ==
    /\ [][/\ out'.op = "cleanup_session" =>
               /\ DOMAIN current_sessions' = DOMAIN current_sessions \ {out'.session_id}
               /\ \A i \in DOMAIN current_sessions' :
                      current_sessions'[i] = current_sessions[i]
               /\ out'.session_id \notin DOMAIN current_sessions =>
                      current_sessions' = current_sessions
               /\ db' = db
          /\ \A i \in DOMAIN current_sessions :
               i \notin DOMAIN current_sessions' =>
                   out'.op = "cleanup_session" /\ out'.session_id = i]_vars
    /\ [](/\ out.op \in SessionOperations
          /\ out.session_id < next_session
          /\ out.session_id \notin DOMAIN current_sessions
          => out.kind = "not_found")

\* a session was cleaned up while another one, holding a question, stays
C13_OtherSessionKept ==
    /\ out.op = "cleanup_session"
    /\ out.session_id < next_session
    /\ out.session_id \notin DOMAIN current_sessions
    /\ \E i \in DOMAIN current_sessions : current_sessions[i].questions # <<>>

----------------------------------------------------------------------------
(* TTSService *)

\* the texts handed to text_to_speech: tokens are a word, a blank, a dollar
\* sign and one of the excluded characters of TTS_CONFIG
TTSTexts ==
    {<<>>, <<" ">>, <<"w">>, <<" ", "w">>, <<"w", "w">>, <<"emoji">>,
     <<"$", "$", "w", "$", "$">>}

\* for char in TTS_CONFIG["excluded_chars"]: text = text.replace(char, "")
RemoveExcluded(text) == Replace(text, "emoji")

\* re.sub(r'\s+', ' ', ...)
RECURSIVE Collapse(_)
Collapse(text) ==
    IF Len(text) < 2 THEN text
    ELSE IF text[1] = " " /\ text[2] = " " THEN Collapse(Tail(text))
    ELSE <<text[1]>> \o Collapse(Tail(text))

\* re.sub(r'\$([^$]+)\$', r'\1', text): one pass from the left, matches do
\* not overlap
RECURSIVE MathSub(_)
MathSub(text) ==
    IF text = <<>> THEN <<>>
    ELSE IF text[1] # "$" THEN <<text[1]>> \o MathSub(Tail(text))
    ELSE LET closing == {j \in 2..Len(text) : text[j] = "$"}
         IN IF closing = {} THEN text
            ELSE LET j == CHOOSE k \in closing : \A l \in closing : k <= l
                 IN IF j = 2 THEN <<"$">> \o MathSub(Tail(text))
                    ELSE SubSeq(text, 2, j - 1)
                             \o MathSub(SubSeq(text, j + 1, Len(text)))

\* clean_text_for_speech; its other patterns do not match these tokens
CleanTextForSpeech(text) ==
    IF text = <<>> THEN <<>>
    ELSE Strip(MathSub(Collapse(Strip(RemoveExcluded(text)))))

\* hashlib.md5(...).hexdigest()[:12]
Md5(text) == [md5 |-> text]

GenerateCacheKey(text) == Md5(CleanTextForSpeech(text))

\* self.temp_dir / f"speech_{cache_key}.mp3" and its .tmp sibling
FilePath(cache_key) == [speech |-> cache_key, suffix |-> "mp3"]
TempPath(cache_key) == [speech |-> cache_key, suffix |-> "tmp"]

\* the paths text_to_speech can create
TTSPaths ==
    UNION {{FilePath(GenerateCacheKey(CleanTextForSpeech(text))),
            TempPath(GenerateCacheKey(CleanTextForSpeech(text)))} :
              text \in {t \in TTSTexts : CleanTextForSpeech(t) # <<>>}}

\* self.temp_dir.glob("speech_*.mp3")
Mp3Files == {path \in files : path.suffix = "mp3"}

\* cache_key in self.cache and os.path.exists(self.cache[cache_key])
CacheHit(cache_key) == cache_key \in DOMAIN cache /\ cache[cache_key] \in files

\* how a synthesis ends: gTTS(...), tts.save or the move of the temporary
\* file raises, or all of them succeed
SynthesisOutcomes == {"ok", "gtts_raises", "save_raises", "move_raises"}

\* the cache without the keys recorded for the removed paths
Forget(removed) ==
    [key \in {k \in DOMAIN cache : cache[k] \notin removed} |-> cache[key]]

Spoke(text, result, synthesized) ==
    [op |-> "text_to_speech", text |-> text, result |-> result,
     synthesized |-> synthesized]

Remember(text, result) ==
    IF result = None THEN spoken
    ELSE [t \in DOMAIN spoken \cup {text} |->
             IF t = text THEN result[1] ELSE spoken[t]]

TextToSpeech ==
    /\ \E text \in TTSTexts, outcome \in SynthesisOutcomes, removed \in BOOLEAN :
        LET cleaned_text == CleanTextForSpeech(text)
            cache_key == GenerateCacheKey(cleaned_text)
            file_path == FilePath(cache_key)
            temp_path == TempPath(cache_key)
        IN IF text = <<>> \/ Strip(text) = <<>> \/ cleaned_text = <<>>
           THEN /\ speech' = Spoke(text, None, FALSE)
                /\ UNCHANGED <<cache, files, spoken>>
           ELSE IF CacheHit(cache_key)
           THEN /\ speech' = Spoke(text, Some(cache[cache_key]), FALSE)
                /\ spoken' = Remember(text, Some(cache[cache_key]))
                /\ UNCHANGED <<cache, files>>
           ELSE IF outcome = "ok"
           THEN /\ files' = (files \ {temp_path}) \cup {file_path}
                /\ cache' = [key \in DOMAIN cache \cup {cache_key} |->
                               IF key = cache_key THEN file_path ELSE cache[key]]
                /\ speech' = Spoke(text, Some(file_path), TRUE)
                /\ spoken' = Remember(text, Some(file_path))
           ELSE \* the except branch removes what it finds, if it can
                /\ files' =
                     IF outcome = "gtts_raises"
                     THEN (IF removed THEN files \ {file_path} ELSE files)
                     ELSE (IF removed THEN files \ {temp_path, file_path}
                           ELSE files \cup {temp_path})
                /\ speech' = Spoke(text, None, TRUE)
                /\ UNCHANGED <<cache, spoken>>
    /\ UNCHANGED <<gvars, svars>>

CleanupFile ==
    /\ \E file_path \in TTSPaths, removed \in BOOLEAN :
        /\ IF file_path \in files /\ removed
           THEN /\ files' = files \ {file_path}
                /\ cache' = Forget({file_path})
           ELSE UNCHANGED <<cache, files>>
        /\ speech' = [op |-> "cleanup_file", path |-> file_path]
    /\ UNCHANGED <<spoken, gvars, svars>>

\* the files older than the cutoff whose unlink succeeds are an input
CleanupOldFiles ==
    /\ \E removed \in SUBSET Mp3Files :
        /\ files' = files \ removed
        /\ cache' = Forget(removed)
    /\ speech' = [op |-> "cleanup_old_files"]
    /\ UNCHANGED <<spoken, gvars, svars>>

\* the files whose unlink succeeds are an input
CleanupAll ==
    /\ \E removed \in SUBSET Mp3Files :
        files' = files \ removed
    /\ cache' = <<>>
    /\ speech' = [op |-> "cleanup_all"]
    /\ UNCHANGED <<spoken, gvars, svars>>

TTSNext ==
    \/ TextToSpeech
    \/ CleanupFile
    \/ CleanupOldFiles
    \/ CleanupAll

TTSSpec == Init /\ [][TTSNext]_vars

\* C14: text_to_speech returns None or the path of an audio file that exists
\* at the return and is recorded in the cache under the key of the text; a
\* later call with the same text while that file still exists returns the
\* same path without synthesizing again; empty or whitespace-only text
\* returns None and touches neither the cache nor the files.
C14_TextToSpeech ==
    /\ [](speech.op = "text_to_speech" /\ speech.result # None =>
            /\ speech.result[1] \in Mp3Files
            /\ GenerateCacheKey(speech.text) \in DOMAIN cache
            /\ cache[GenerateCacheKey(speech.text)] = speech.result[1])
    /\ [][speech'.op = "text_to_speech" =>
            /\ speech'.text \in DOMAIN spoken /\ spoken[speech'.text] \in files =>
                  speech'.result = Some(spoken[speech'.text]) /\ ~speech'.synthesized
            /\ Strip(speech'.text) = <<>> =>
                  speech'.result = None /\ cache' = cache /\ files' = files]_vars

----------------------------------------------------------------------------
(* More claims about TutorGraph *)

\* the validator's rejections and acceptance in this invocation
Rejections == Cardinality({i \in 1..Len(validations) : validations[i] = "invalid"})
Accepted == \E i \in 1..Len(validations) : validations[i] = "valid"

\* the generation calls that raised in this invocation
GenerationFailures == NodeRuns("generate_question") - Len(state.questions_generated)

\* the validate_question node has just run and rejected the question
JustRejected ==
    /\ trace # <<>> /\ trace[Len(trace)] = "validate_question"
    /\ validations # <<>> /\ validations[Len(validations)] = "invalid"

\* what a rejection and an acceptance lead to
RejectionLeadsOn ==
    /\ JustRejected /\ Rejections < 3 =>
          node = "generate_question" /\ state.current_question = None
    /\ JustRejected /\ Rejections >= 3 =>
          /\ Rejections = 3
          /\ node \in {"END", "idle"}
          /\ state.current_question = None
    /\ Accepted => state.retry_count = 0 /\ node \in {"END", "idle"}

\* C15 as stated: within one generate_question invocation retry_count equals
\* the number of validator rejections so far; the first and the second
\* rejection discard the question and lead back to generate_question, the
\* third ends the invocation with current_question = None, and an accepted
\* validation resets retry_count to 0 before END.
C15_RetryCountIsRejections ==
    op = "generate_question" =>
        /\ ~Accepted => state.retry_count = Rejections
        /\ RejectionLeadsOn

\* C15 amended: until a validation is accepted retry_count equals the number
\* of validator rejections plus the number of generation calls that raised;
\* the rest as stated.
C15_RetryCountIsFailedAttempts ==
    op = "generate_question" =>
        /\ ~Accepted => state.retry_count = Rejections + GenerationFailures
        /\ RejectionLeadsOn

\* two rejections, then the third generation call raises
C15_RaisesAfterTwoRejections ==
    /\ op = "generate_question" /\ node = "END"
    /\ Rejections = 2 /\ GenerationFailures = 1
    /\ state.retry_count = 3

\* the last validation of the invocation accepted the question
LastAccepted == validations # <<>> /\ validations[Len(validations)] = "valid"

\* C16: when the validator accepts a question and supplies a non-empty
\* improved_question, generate_question returns the question with the
\* improved text and the generated hint, solution and difficulty; when
\* improved_question is absent it returns the generated text.
C16_ImprovedQuestion ==
    Returned("generate_question") /\ ret.op = "generate_question" /\ LastAccepted =>
        /\ ret.value # None /\ asked.generated # None
        /\ ret.value[1].hint = asked.generated[1].hint
        /\ ret.value[1].solution = asked.generated[1].solution
        /\ ret.value[1].difficulty_level = asked.generated[1].difficulty_level
        /\ asked.improved # None /\ asked.improved[1] # "" =>
              ret.value[1].question = asked.improved[1]
        /\ asked.improved = None =>
              ret.value[1].question = asked.generated[1].question

\* a question rejected once, generated anew at level 5, accepted with an
\* improved text and returned
C16_ImprovedAfterRetry ==
    /\ Returned("generate_question") /\ ret.op = "generate_question" /\ LastAccepted
    /\ Rejections = 1
    /\ asked.improved = Some("Qimproved")
    /\ ret.value # None /\ ret.value[1].question = "Qimproved"
    /\ ret.value[1].difficulty_level = 5

\* the session types _routing_condition knows
KnownSessionTypes == {"explanation", "practice", "assessment", "learning_plan"}

LastContent(s) == s.messages[Len(s.messages)].content

\* the invocation went from route_request to handle_error to END, called no
\* LLM and left the four results as they were
OnlyHandledError ==
    /\ asked.calls = 0
    /\ trace \in {<<>>, <<"route_request">>, <<"route_request", "handle_error">>}
    /\ node \in {"END", "idle"} => trace = <<"route_request", "handle_error">>
    /\ state.current_question = asked.initial.current_question
    /\ state.evaluation_result = asked.initial.evaluation_result
    /\ state.learning_plan = asked.initial.learning_plan
    /\ state.explanation_content = asked.initial.explanation_content

\* C17 as stated: an invocation whose message list is empty, or whose
\* session_type is none of the four known ones and whose last message
\* contains neither 'evaluate:' nor 'learning_plan', goes from route_request
\* to handle_error to END without an LLM call and without changing
\* current_question, evaluation_result, learning_plan or explanation_content.
C17_UnroutableInvocation ==
    LET s == asked.initial
    IN /\ op = "invoke"
       /\ \/ s.messages = <<>>
          \/ /\ s.session_type \notin KnownSessionTypes
             /\ ~Contains("evaluate:", LastContent(s))
             /\ ~Contains("learning_plan", LastContent(s))
       => OnlyHandledError

\* C17 amended: the two texts are looked for in the lower-cased message.
C17_UnroutableInAnyCase ==
    LET s == asked.initial
    IN /\ op = "invoke"
       /\ \/ s.messages = <<>>
          \/ /\ s.session_type \notin KnownSessionTypes
             /\ ~Contains("evaluate:", Lower(LastContent(s)))
             /\ ~Contains("learning_plan", Lower(LastContent(s)))
       => OnlyHandledError

\* an invocation with a message, an unknown session_type and a question in
\* its state, at END after handle_error
C17_HandledWithQuestion ==
    /\ op = "invoke" /\ node = "END"
    /\ asked.initial.messages # <<>>
    /\ asked.initial.session_type = "evaluation"
    /\ asked.initial.current_question # None
    /\ trace = <<"route_request", "handle_error">>

====
